---- MODULE Spec2Model ----
(***************************************************************************)
(* histrion: a discrete-event simulator.  A Workspace owns a world of      *)
(* actors (entities with an Agenda and a Trajectory), a clock `now`, a     *)
(* table of globals and methods, and interprets scripts (arrays of         *)
(* Action) on fibers.  `perform` runs a script on the supervisor,          *)
(* `update` dispatches the parked task with the smallest SortToken and     *)
(* `simulate` repeats `update` until the world has halted.                 *)
(*                                                                         *)
(* One state of the model is one point between two iterations of the       *)
(* `while let Some(action) = fiber.fetch()` loop of Workspace::run: every  *)
(* Exec* action below is one iteration of that loop, `runs` is the chain   *)
(* of nested run() invocations (AsActor re-enters run).                    *)
(*                                                                         *)
(* Positions, velocities and accelerations are Vec3<f64> in the source;    *)
(* the model keeps the x component as an integer (y and z stay 0).         *)
(* Instants and Intervals are NotNan<f64>; the model uses integers.        *)
(***************************************************************************)
EXTENDS Integers, Sequences, FiniteSets, TLC

(***************************************************************************)
(* Bounds of the model                                                     *)
(***************************************************************************)
\* number of dispatches made by calls of update() (simulate() runs its own
\* loop to the end)
MaxUpdate == 4
\* statements drawn freely at the end of a script
MaxLen == 2
\* entities the world may hold (the supervisor included)
MaxEntities == 6
\* deepest call stack explored
MaxStack == 2
\* statements in the body run by a spawned actor; the body of a method has
\* one fewer
MaxBody == 4

(***************************************************************************)
(* Values, expressions, signals (lib.rs eval_expr, action values)          *)
(***************************************************************************)
ActorId(id) == [t |-> "actor", v |-> id]

Num(n) == [t |-> "num", v |-> n]

\* Value::from(Position): the struct { x, y, z }, of which x is kept
StructOf(p) == [t |-> "struct", v |-> p]

NoExpr == <<>>

Myself == [e |-> "Myself", name |-> "", num |-> 0, sub |-> NoExpr]

Var(n) == [e |-> "Var", name |-> n, num |-> 0, sub |-> NoExpr]

NumConst(n) == [e |-> "NumConst", name |-> "", num |-> n, sub |-> NoExpr]

Field(subject, f) == [e |-> "Field", name |-> f, num |-> 0, sub |-> <<subject>>]

Signal(head, body) == [head |-> head, body |-> body]

(***************************************************************************)
(* Actions of a script                                                     *)
(***************************************************************************)
Act(op) ==
    [op |-> op, name |-> "", num |-> 0, args |-> <<>>, script |-> <<>>,
     params |-> <<>>]

Halt == Act("Halt")

Trace(expr) == [Act("Trace") EXCEPT !.args = <<expr>>]

Spawn(n) == [Act("Spawn") EXCEPT !.name = n]

AsActor(n, script) == [Act("AsActor") EXCEPT !.name = n, !.script = script]

SetAccel(a) == [Act("SetAccel") EXCEPT !.num = a]

Wait(d) == [Act("Wait") EXCEPT !.num = d]

ListenFor(head, args) == [Act("ListenFor") EXCEPT !.name = head, !.args = args]

Transmit(head, args) == [Act("Transmit") EXCEPT !.name = head, !.args = args]

Die == Act("Die")

WriteLocal(n, expr) == [Act("WriteLocal") EXCEPT !.name = n, !.args = <<expr>>]

DefGlobalMethod(n, params, script) ==
    [Act("DefGlobalMethod") EXCEPT !.name = n, !.params = params, !.script = script]

Call(n, args) == [Act("Call") EXCEPT !.name = n, !.args = args]

Return == Act("Return")

(***************************************************************************)
(* Fibers and tasks (task.rs)                                              *)
(***************************************************************************)
EmptyMap == [x \in {} |-> 0]

StackFrame(script, locals) == [pc |-> 0, script |-> script, locals |-> locals]

\* Fiber::new: one frame at pc 0 with no locals.  fid names the fiber in
\* the model only; the source's fibers are told apart by their Box.
NewFiber(fid, me, script) ==
    [fid |-> fid, me |-> me, stack |-> <<StackFrame(script, EmptyMap)>>]

SortToken(eta, guid) == [eta |-> eta, guid |-> guid]

\* a SortToken that compares by guid alone
TokenLessByGuid(a, b) == a.guid < b.guid

\* a SortToken whose comparison is turned around
TokenLessFlipped(a, b) == b.eta < a.eta \/ (b.eta = a.eta /\ b.guid < a.guid)

\* #[derive(PartialOrd, Ord)] on SortToken { eta, guid }: lexicographic
TokenLess(a, b) == a.eta < b.eta \/ (a.eta = b.eta /\ a.guid < b.guid)

QueuedTask(token, fiber) == [token |-> token, fiber |-> fiber]

Waiting(guid, fiber) == [guid |-> guid, fiber |-> fiber]

\* Fiber::fetch: the action at the top frame's pc, if any
CanFetch(fiber) ==
    /\ Len(fiber.stack) > 0
    /\ fiber.stack[Len(fiber.stack)].pc < Len(fiber.stack[Len(fiber.stack)].script)

Fetched(fiber) ==
    LET frame == fiber.stack[Len(fiber.stack)]
    IN  frame.script[frame.pc + 1]

\* Fiber::fetch's effect on the fiber: pc += 1 in the top frame
Advance(fiber) ==
    [fiber EXCEPT !.stack[Len(fiber.stack)].pc = @ + 1]

Frame(fiber) == fiber.stack[Len(fiber.stack)]


(***************************************************************************)
(* State of a Workspace (lib.rs:17-25) and of its World's components       *)
(***************************************************************************)
VARIABLES
    now,            \* Workspace.now
    has_halted,     \* Workspace.has_halted
    globals,        \* Workspace.globals: name -> entity
    methods,        \* Workspace.methods: name -> Method
    task_counter,   \* Workspace.task_counter
    entities,       \* number of entities created; entity ids are 1..entities
    agenda,         \* the Agenda component of every entity
    trajectory,     \* the Trajectory component, of the entities that have one
    positions,      \* the Position component: the per-instant cache
    liveness,       \* the Liveness component, of the entities that have one
    runs,           \* the fibers of the run() invocations in progress, outermost first
    call,           \* the API call in progress
    result,         \* what the last API call returned
    fiber_counter,  \* fibers created so far (names them in the model)
    performed,      \* the scripts given to perform() so far
    dispatched,     \* one record per completed dispatch of update()
    halted,         \* the fibers that executed Halt
    wakes,          \* one record per listener woken by a Transmit
    ev              \* the step just taken

world == <<now, has_halted, globals, methods, task_counter, entities, agenda,
           trajectory, positions, liveness>>

vars == <<now, has_halted, globals, methods, task_counter, entities, agenda,
          trajectory, positions, liveness, runs, call, result, fiber_counter,
          performed, dispatched, halted, wakes, ev>>

\* Workspace.supervisor: the first entity created by Workspace::new
supervisor == 1

\* Agenda::default()
AgendaDefault == [next |-> <<>>, listening |-> EmptyMap]

(***************************************************************************)
(* Trajectory (lib.rs:408-449)                                             *)
(***************************************************************************)
Fixed(value) ==
    [kind |-> "Fixed", place |-> value, time |-> 0, vel |-> 0, accel |-> 0]

Linear(start_place, start_time, start_velocity, accel) ==
    [kind |-> "Linear", place |-> start_place, time |-> start_time,
     vel |-> start_velocity, accel |-> accel]

\* impl Default for Trajectory: Fixed at Position::default()
TrajectoryDefault == Fixed(0)

\* Instant::delta: other - self
Delta(self, other) == other - self

\* Trajectory::velocity_at.  Accelerations of the model are even, so that
\* accel * dt^2 * 0.5 is an integer.
velocity_at(tr, time) ==
    IF tr.kind = "Fixed" THEN 0
    ELSE LET dt == Delta(tr.time, time)
             dv == (tr.accel * dt * dt) \div 2
         IN  tr.vel + dv

\* Trajectory::sample_at
sample_at(tr, time) ==
    IF tr.kind = "Fixed" THEN tr.place
    ELSE LET dt == Delta(tr.time, time)
             velocity == velocity_at(tr, time)
         IN  tr.place + velocity * dt

\* Workspace::get_position: the cached position, or the trajectory (the
\* default one for an entity without the component) sampled at now and
\* cached.  Yields the position and the cache afterwards.
get_position(id, cache) ==
    IF id \in DOMAIN cache
    THEN [pos |-> cache[id], cache |-> cache]
    ELSE LET tr == IF id \in DOMAIN trajectory THEN trajectory[id]
                   ELSE TrajectoryDefault
             position == sample_at(tr, now)
         IN  [pos |-> position, cache |-> (id :> position) @@ cache]

(***************************************************************************)
(* Workspace::eval_expr (lib.rs:312-353)                                   *)
(***************************************************************************)
Good(val, cache) == [ok |-> TRUE, val |-> val, err |-> "", cache |-> cache]

Bad(err, cache) == [ok |-> FALSE, val |-> Num(0), err |-> err, cache |-> cache]

RECURSIVE eval_expr(_, _, _)
eval_expr(fiber, expr, cache) ==
    CASE expr.e = "Myself" -> Good(ActorId(fiber.me), cache)
      [] expr.e = "NumConst" -> Good(Num(expr.num), cache)
      [] expr.e = "Var" ->
            IF expr.name \in DOMAIN Frame(fiber).locals
            THEN Good(Frame(fiber).locals[expr.name], cache)
            ELSE IF expr.name \in DOMAIN globals
            THEN Good(ActorId(globals[expr.name]), cache)
            ELSE Bad("NoSuchGlobal", cache)
      [] expr.e = "Field" ->
            LET s == eval_expr(fiber, expr.sub[1], cache)
            IN  IF ~s.ok THEN s
                ELSE IF s.val.t = "actor"
                THEN IF expr.name = "position"
                     THEN LET p == get_position(s.val.v, s.cache)
                          IN  Good(StructOf(p.pos), p.cache)
                     ELSE Bad("NoSuchField", s.cache)
                ELSE IF s.val.t = "struct"
                THEN IF expr.name = "x" THEN Good(Num(s.val.v), s.cache)
                     ELSE IF expr.name \in {"y", "z"} THEN Good(Num(0), s.cache)
                     ELSE Bad("NoSuchField", s.cache)
                ELSE Bad("NoSuchField", s.cache)

\* args.iter().map(eval_expr).collect::<Result<_>>(): the values in order,
\* or the first error
RECURSIVE eval_args(_, _, _, _)
eval_args(fiber, args, cache, done) ==
    IF Len(done) = Len(args)
    THEN [ok |-> TRUE, vals |-> done, err |-> "", cache |-> cache]
    ELSE LET r == eval_expr(fiber, args[Len(done) + 1], cache)
         IN  IF r.ok
             THEN eval_args(fiber, args, r.cache, Append(done, r.val))
             ELSE [ok |-> FALSE, vals |-> <<>>, err |-> r.err, cache |-> r.cache]

(***************************************************************************)
(* Workspace::find_next_task (lib.rs:374-405)                              *)
(***************************************************************************)
\* the loop over (&entities, &agenda).join(), in entity order: next is the
\* entity kept so far (0 for None)
RECURSIVE ScanAgendas(_, _)
ScanAgendas(id, next) ==
    IF id > entities THEN next
    ELSE IF agenda[id].next = <<>> THEN ScanAgendas(id + 1, next)
    ELSE IF next # 0 /\ TokenLess(agenda[next].next[1].token,
                                  agenda[id].next[1].token)
         THEN ScanAgendas(id + 1, next)
         ELSE ScanAgendas(id + 1, id)

\* the entity whose task find_next_task takes, or 0 when none is parked
NextEntity == ScanAgendas(1, 0)


(***************************************************************************)
(* Steps of the model                                                      *)
(***************************************************************************)
Top == runs[Len(runs)]

Pop(rs) == SubSeq(rs, 1, Len(rs) - 1)

SetTop(rs, fiber) == [rs EXCEPT ![Len(rs)] = fiber]

\* the step just taken: the action executed, by which fiber, as which actor,
\* in the depth-th nested run(), and whether it succeeded
Event(kind, fiber) ==
    [kind |-> kind, fid |-> fiber.fid, me |-> fiber.me, depth |-> Len(runs),
     ok |-> TRUE]

Failure(kind, fiber) == [Event(kind, fiber) EXCEPT !.ok = FALSE]

\* run() returns Ok to its caller: to the enclosing run() (AsActor), to
\* perform()/update(), which return it, or to the loop of simulate()
Returns(rs) ==
    IF rs = <<>> /\ call \in {"perform", "update"}
    THEN call' = "idle" /\ result' = "Ok"
    ELSE UNCHANGED <<call, result>>

\* an error that ends the nested run only: the enclosing run() goes on
FailsInnermost(err) ==
    /\ runs' = Pop(runs)
    /\ IF Pop(runs) = <<>>
       THEN call' = "idle" /\ result' = err
       ELSE UNCHANGED <<call, result>>

\* an action fails: `?` returns the error through every run() in progress
\* and through perform()/update()/simulate(); the fibers are dropped
Fails(err) ==
    /\ runs' = <<>>
    /\ call' = "idle"
    /\ result' = err

Running(op) ==
    /\ runs # <<>>
    /\ CanFetch(Top)
    /\ Fetched(Top).op = op

\* Workspace::new
Init ==
    /\ now = 0
    /\ has_halted = FALSE
    /\ globals = ("Everything" :> supervisor)
    /\ methods = EmptyMap
    /\ task_counter = 0
    /\ entities = 1
    /\ agenda = (supervisor :> AgendaDefault)
    /\ trajectory = EmptyMap
    /\ positions = EmptyMap
    /\ liveness = EmptyMap
    /\ runs = <<>>
    /\ call = "idle"
    /\ result = "none"
    /\ fiber_counter = 0
    /\ performed = <<>>
    /\ dispatched = <<>>
    /\ halted = {}
    /\ wakes = {}
    /\ ev = [kind |-> "new", fid |-> 0, me |-> 0, depth |-> 0, ok |-> TRUE]

\* a make_guid that hands out every guid twice
make_guidTwice == task_counter \div 2

\* Workspace::make_guid
make_guid == task_counter

\* Workspace::perform: run a fiber of the supervisor on the script
PerformScript(script) ==
    /\ call = "idle"
    /\ runs' = <<NewFiber(fiber_counter + 1, supervisor, script)>>
    /\ fiber_counter' = fiber_counter + 1
    /\ performed' = Append(performed, [script |-> script, at |-> Len(dispatched)])
    /\ call' = "perform"
    /\ result' = "none"
    /\ ev' = [kind |-> "perform", fid |-> fiber_counter + 1, me |-> supervisor,
              depth |-> 0, ok |-> TRUE]
    /\ UNCHANGED <<world, dispatched, halted, wakes>>

\* an Interval::one() of two seconds
IntervalOneDoubled == 1 + 1

\* Interval::one()
IntervalOne == 1

\* an Instant + Interval that adds the interval twice
InstantAddTwice(self, rhs) == self + rhs + rhs

\* an Instant + Interval that subtracts the interval
InstantSub(self, rhs) == self - rhs

\* impl Add<Interval> for Instant
InstantAdd(self, rhs) == self + rhs

\* a take() that leaves the task in the slot
TakeNothing(ag, id) == ag

\* agenda.get_mut(id).unwrap().next.take(): the slot is left empty
Take(ag, id) == [ag EXCEPT ![id].next = <<>>]

\* Workspace::find_next_task: the parked task with the least token, taken
\* out of its agenda; when no task is parked, a Halt of the supervisor
\* one second from now
find_next_task ==
    LET id == NextEntity
    IN  IF id # 0
        THEN [from |-> id,
              eta |-> agenda[id].next[1].token.eta,
              guid |-> agenda[id].next[1].token.guid,
              fiber |-> agenda[id].next[1].fiber,
              agenda |-> Take(agenda, id)]
        ELSE [from |-> 0,
              eta |-> InstantAdd(now, IntervalOne),
              guid |-> -1,
              fiber |-> NewFiber(fiber_counter + 1, supervisor, <<Halt>>),
              agenda |-> agenda]

\* an update() that keeps the Position cache
ClearNothing(cache) == cache

\* self.world.write_component::<Position>().clear()
Clear(cache) == EmptyMap

\* an update() that does not check the time it advances to
TimeCheckOff(time) == TRUE

\* assert!(time >= self.now, "Time went backwards")
TimeCheck(time) == time >= now

\* Workspace::update up to its call of run(): find_next_task, the check
\* that time does not go backwards, the advance of now, the clearing of
\* the Position cache.  `by` is the API call that runs it.
Dispatch(by) ==
    LET task == find_next_task
        time == task.eta
        fiber == task.fiber
    IN  /\ agenda' = task.agenda
        /\ fiber_counter' = IF task.from # 0 THEN fiber_counter
                            ELSE fiber_counter + 1
        /\ IF TimeCheck(time)
           THEN /\ now' = time
                /\ positions' = Clear(positions)
                /\ runs' = <<fiber>>
                /\ call' = by
                /\ dispatched' = Append(dispatched,
                        [eta |-> time, guid |-> task.guid, fid |-> fiber.fid,
                         me |-> fiber.me, from |-> task.from, before |-> now,
                         by |-> by])
                /\ ev' = [kind |-> "dispatch", fid |-> fiber.fid, me |-> fiber.me,
                          depth |-> 0, ok |-> TRUE]
                /\ UNCHANGED result
           ELSE \* the assertion fails: the process panics
                /\ call' = "panicked"
                /\ result' = "panic"
                /\ ev' = [kind |-> "panic", fid |-> fiber.fid, me |-> fiber.me,
                          depth |-> 0, ok |-> FALSE]
                /\ UNCHANGED <<now, positions, runs, dispatched>>
        /\ UNCHANGED <<has_halted, globals, methods, task_counter, entities,
                       trajectory, liveness, performed, halted, wakes>>

\* a call of Workspace::update
Update ==
    /\ call = "idle"
    /\ Len(dispatched) < MaxUpdate
    /\ Dispatch("update")

\* a call of Workspace::simulate
Simulate ==
    /\ call = "idle"
    /\ call' = "simulate"
    /\ result' = "none"
    /\ ev' = [kind |-> "simulate", fid |-> 0, me |-> 0, depth |-> 0, ok |-> TRUE]
    /\ UNCHANGED <<world, runs, fiber_counter, performed, dispatched, halted, wakes>>

\* a simulate() whose loop never runs
LoopConditionNever == FALSE

\* the condition of simulate's loop, `while !self.has_halted`
LoopCondition == ~has_halted

\* simulate's loop, `while !self.has_halted { self.update()?; }`: one more update
SimulateUpdate ==
    /\ call = "simulate"
    /\ runs = <<>>
    /\ LoopCondition
    /\ Dispatch("simulate")

\* simulate's loop ends: Ok(())
SimulateReturn ==
    /\ call = "simulate"
    /\ runs = <<>>
    /\ ~LoopCondition
    /\ call' = "idle"
    /\ result' = "Ok"
    /\ ev' = [kind |-> "return", fid |-> 0, me |-> 0, depth |-> 0, ok |-> TRUE]
    /\ UNCHANGED <<world, runs, fiber_counter, performed, dispatched, halted, wakes>>

\* a run() that, at the end of a method's body, returns to the caller's frame
RunEndReturns ==
    /\ runs # <<>>
    /\ ~CanFetch(Top)
    /\ IF Len(Top.stack) > 1
       THEN /\ runs' = SetTop(runs, [Top EXCEPT !.stack = Pop(@)])
            /\ UNCHANGED <<call, result>>
       ELSE /\ runs' = Pop(runs)
            /\ Returns(Pop(runs))
    /\ ev' = Event("end", Top)
    /\ UNCHANGED <<world, fiber_counter, performed, dispatched, halted, wakes>>

\* run(): fetch() yields None, the loop ends, Ok(())
RunEnd ==
    /\ runs # <<>>
    /\ ~CanFetch(Top)
    /\ runs' = Pop(runs)
    /\ Returns(Pop(runs))
    /\ ev' = Event("end", Top)
    /\ UNCHANGED <<world, fiber_counter, performed, dispatched, halted, wakes>>

\* a Halt that also ends the run of its fiber
ExecHaltBreaks ==
    /\ Running("Halt")
    /\ has_halted' = TRUE
    /\ runs' = Pop(runs)
    /\ Returns(Pop(runs))
    /\ halted' = halted \cup {Top.fid}
    /\ ev' = Event("Halt", Top)
    /\ UNCHANGED <<now, globals, methods, task_counter, entities, agenda,
                   trajectory, positions, liveness, fiber_counter,
                   performed, dispatched, wakes>>

\* Action::Halt
ExecHalt ==
    /\ Running("Halt")
    /\ has_halted' = TRUE
    /\ runs' = SetTop(runs, Advance(Top))
    /\ halted' = halted \cup {Top.fid}
    /\ ev' = Event("Halt", Top)
    /\ UNCHANGED <<now, globals, methods, task_counter, entities, agenda,
                   trajectory, positions, liveness, call, result, fiber_counter,
                   performed, dispatched, wakes>>

\* Action::Wait
ExecWait ==
    /\ Running("Wait")
    /\ LET fiber == Advance(Top)
           guid == make_guid
           token == SortToken(InstantAdd(now, Fetched(Top).num), guid)
       IN  /\ task_counter' = task_counter + 1
           /\ agenda' = [agenda EXCEPT ![fiber.me].next = <<QueuedTask(token, fiber)>>]
           /\ runs' = Pop(runs)
           /\ Returns(Pop(runs))
    /\ ev' = Event("Wait", Top)
    /\ UNCHANGED <<now, has_halted, globals, methods, entities, trajectory,
                   positions, liveness, fiber_counter, performed, dispatched,
                   halted, wakes>>


\* Action::Trace: evaluates the expression (and prints it)
ExecTrace ==
    /\ Running("Trace")
    /\ LET fiber == Advance(Top)
           r == eval_expr(fiber, Fetched(Top).args[1], positions)
       IN  /\ positions' = r.cache
           /\ IF r.ok
              THEN /\ runs' = SetTop(runs, fiber)
                   /\ ev' = Event("Trace", Top)
                   /\ UNCHANGED <<call, result>>
              ELSE /\ Fails(r.err)
                   /\ ev' = Failure("Trace", Top)
    /\ UNCHANGED <<now, has_halted, globals, methods, task_counter, entities,
                   agenda, trajectory, liveness, fiber_counter, performed,
                   dispatched, halted, wakes>>

\* a Spawn that puts the new actor at the origin
SpawnedAtOrigin(position) ==
    [agenda |-> AgendaDefault, trajectory |-> Fixed(0)]

\* the components of the entity Spawn builds, besides its name and its
\* creation date: an empty agenda and a Fixed trajectory at the position
Spawned(position) ==
    [agenda |-> AgendaDefault, trajectory |-> Fixed(position)]

\* Action::Spawn: a new entity with an empty Agenda and a Fixed trajectory
\* at the spawner's position, bound to the name
ExecSpawn ==
    /\ Running("Spawn")
    /\ entities < MaxEntities
    /\ LET fiber == Advance(Top)
           p == get_position(fiber.me, positions)
           id == entities + 1
       IN  /\ positions' = p.cache
           /\ entities' = id
           /\ agenda' = (id :> Spawned(p.pos).agenda) @@ agenda
           /\ trajectory' = (id :> Spawned(p.pos).trajectory) @@ trajectory
           /\ globals' = (Fetched(Top).name :> id) @@ globals
           /\ runs' = SetTop(runs, fiber)
    /\ ev' = Event("Spawn", Top)
    /\ UNCHANGED <<now, has_halted, methods, task_counter, liveness, call,
                   result, fiber_counter, performed, dispatched, halted, wakes>>

\* an AsActor whose nested fiber acts as the outer fiber's actor
NestedFiberOfOuter(fid, outer, me, script) ==
    [fid |-> fid, me |-> outer.me,
     stack |-> <<StackFrame(script, Frame(outer).locals)>>]

\* the fiber AsActor builds: the named actor, one frame with the nested
\* script and a copy of the outer frame's locals
NestedFiber(fid, outer, me, script) ==
    [fid |-> fid, me |-> me,
     stack |-> <<StackFrame(script, Frame(outer).locals)>>]

\* Action::AsActor: run the nested script on a new fiber of the named actor,
\* with a copy of the current frame's locals
ExecAsActor ==
    /\ Running("AsActor")
    /\ LET fiber == Advance(Top)
           a == Fetched(Top)
       IN  IF a.name \in DOMAIN globals
           THEN LET me == globals[a.name]
                    nested == NestedFiber(fiber_counter + 1, fiber, me, a.script)
                IN  /\ runs' = Append(SetTop(runs, fiber), nested)
                    /\ fiber_counter' = fiber_counter + 1
                    /\ ev' = Event("AsActor", Top)
                    /\ UNCHANGED <<call, result>>
           ELSE /\ Fails("NoSuchGlobal")
                /\ ev' = Failure("AsActor", Top)
                /\ UNCHANGED fiber_counter
    /\ UNCHANGED <<world, performed, dispatched, halted, wakes>>

\* a SetAccel that never collapses the trajectory to Fixed
NewTrajectoryLinear(start_place, start_time, start_velocity, value) ==
    Linear(start_place, start_time, start_velocity, value)

\* the trajectory SetAccel stores: Fixed when the actor is at rest and the
\* new acceleration is zero, Linear otherwise
NewTrajectory(start_place, start_time, start_velocity, value) ==
    IF start_velocity = 0 /\ value = 0
    THEN Fixed(start_place)
    ELSE Linear(start_place, start_time, start_velocity, value)

\* Action::SetAccel
ExecSetAccel ==
    /\ Running("SetAccel")
    /\ LET fiber == Advance(Top)
           value == Fetched(Top).num
           start_time == now
           p == get_position(fiber.me, positions)
           start_place == p.pos
       IN  /\ positions' = p.cache
           /\ IF fiber.me \in DOMAIN trajectory
              THEN LET start_velocity == velocity_at(trajectory[fiber.me], now)
                   IN  /\ trajectory' = [trajectory EXCEPT ![fiber.me] =
                              NewTrajectory(start_place, start_time,
                                            start_velocity, value)]
                       /\ runs' = SetTop(runs, fiber)
                       /\ ev' = Event("SetAccel", Top)
                       /\ UNCHANGED <<call, result>>
              ELSE /\ Fails("CouldNotWrite")
                   /\ ev' = Failure("SetAccel", Top)
                   /\ UNCHANGED trajectory
    /\ UNCHANGED <<now, has_halted, globals, methods, task_counter, entities,
                   agenda, liveness, fiber_counter, performed, dispatched,
                   halted, wakes>>

\* an insert that keeps the entry a key already has
InsertIfAbsent(map, key, value) == map @@ (key :> value)

\* HashMap::insert: the entry of the key is the new value
Insert(map, key, value) == (key :> value) @@ map

\* Action::ListenFor
ExecListenFor ==
    /\ Running("ListenFor")
    /\ LET fiber == Advance(Top)
           a == Fetched(Top)
           guid == make_guid
           body == eval_args(fiber, a.args, positions, <<>>)
           signal == Signal(a.name, body.vals)
       IN  /\ task_counter' = task_counter + 1
           /\ positions' = body.cache
           /\ IF body.ok
              THEN /\ agenda' = [agenda EXCEPT ![fiber.me].listening =
                                    Insert(@, signal, Waiting(guid, fiber))]
                   /\ runs' = Pop(runs)
                   /\ Returns(Pop(runs))
                   /\ ev' = Event("ListenFor", Top)
              ELSE /\ Fails(body.err)
                   /\ ev' = Failure("ListenFor", Top)
                   /\ UNCHANGED agenda
    /\ UNCHANGED <<now, has_halted, globals, methods, entities, trajectory,
                   liveness, fiber_counter, performed, dispatched, halted, wakes>>

\* a map without one key: HashMap::remove
Without(map, key) == [k \in DOMAIN map \ {key} |-> map[k]]

\* a Transmit that wakes a listener of each actor whatever signal it
\* listens for
FulfilAny(ag, signal) ==
    IF DOMAIN ag.listening # {}
    THEN LET sg == CHOOSE x \in DOMAIN ag.listening : TRUE
             w == ag.listening[sg]
         IN  [next |-> <<QueuedTask(SortToken(now, w.guid), w.fiber)>>,
              listening |-> Without(ag.listening, sg)]
    ELSE ag

\* a Transmit that wakes a listener only into an empty next slot, and
\* otherwise drops it
FulfilIfFree(ag, signal) ==
    IF signal \in DOMAIN ag.listening
    THEN LET w == ag.listening[signal]
         IN  [next |-> IF ag.next = <<>>
                       THEN <<QueuedTask(SortToken(now, w.guid), w.fiber)>>
                       ELSE ag.next,
              listening |-> Without(ag.listening, signal)]
    ELSE ag

\* a Transmit that wakes its listeners one second late
FulfilLate(ag, signal) ==
    IF signal \in DOMAIN ag.listening
    THEN LET w == ag.listening[signal]
         IN  [next |-> <<QueuedTask(SortToken(now + 1, w.guid), w.fiber)>>,
              listening |-> Without(ag.listening, signal)]
    ELSE ag

\* a Transmit that wakes its listeners and leaves them listening
FulfilKeeps(ag, signal) ==
    IF signal \in DOMAIN ag.listening
    THEN LET w == ag.listening[signal]
         IN  [next |-> <<QueuedTask(SortToken(now, w.guid), w.fiber)>>,
              listening |-> ag.listening]
    ELSE ag

\* the body of Transmit's loop over the agendas, for one agenda
Fulfil(ag, signal) ==
    IF signal \in DOMAIN ag.listening
    THEN LET w == ag.listening[signal]
             eta == now
             token == SortToken(eta, w.guid)
         IN  [next |-> <<QueuedTask(token, w.fiber)>>,
              listening |-> Without(ag.listening, signal)]
    ELSE ag

\* Action::Transmit
ExecTransmit ==
    /\ Running("Transmit")
    /\ LET fiber == Advance(Top)
           a == Fetched(Top)
           body == eval_args(fiber, a.args, positions, <<>>)
           signal == Signal(a.name, body.vals)
       IN  /\ positions' = body.cache
           /\ IF body.ok
              THEN /\ agenda' = [id \in DOMAIN agenda |-> Fulfil(agenda[id], signal)]
                   /\ runs' = SetTop(runs, fiber)
                   /\ wakes' = wakes \cup
                        {[tx |-> Cardinality(wakes), t |-> now, sender |-> fiber.fid,
                          signal |-> signal, me |-> id,
                          guid |-> agenda[id].listening[signal].guid,
                          fid |-> agenda[id].listening[signal].fiber.fid,
                          at |-> Len(dispatched)] :
                         id \in {i \in DOMAIN agenda :
                                   signal \in DOMAIN agenda[i].listening}}
                   /\ ev' = Event("Transmit", Top)
                   /\ UNCHANGED <<call, result>>
              ELSE /\ Fails(body.err)
                   /\ ev' = Failure("Transmit", Top)
                   /\ UNCHANGED <<agenda, wakes>>
    /\ UNCHANGED <<now, has_halted, globals, methods, task_counter, entities,
                   trajectory, liveness, fiber_counter, performed, dispatched,
                   halted>>

\* Action::Die: the insert succeeds for every entity of the world
ExecDie ==
    /\ Running("Die")
    /\ liveness' = (Top.me :> "Dead") @@ liveness
    /\ runs' = SetTop(runs, Advance(Top))
    /\ ev' = Event("Die", Top)
    /\ UNCHANGED <<now, has_halted, globals, methods, task_counter, entities,
                   agenda, trajectory, positions, call, result, fiber_counter,
                   performed, dispatched, halted, wakes>>

\* Action::WriteLocal
ExecWriteLocal ==
    /\ Running("WriteLocal")
    /\ LET fiber == Advance(Top)
           a == Fetched(Top)
           r == eval_expr(fiber, a.args[1], positions)
       IN  /\ positions' = r.cache
           /\ IF r.ok
              THEN /\ runs' = SetTop(runs,
                        [fiber EXCEPT !.stack[Len(fiber.stack)].locals =
                            (a.name :> r.val) @@ @])
                   /\ ev' = Event("WriteLocal", Top)
                   /\ UNCHANGED <<call, result>>
              ELSE /\ Fails(r.err)
                   /\ ev' = Failure("WriteLocal", Top)
    /\ UNCHANGED <<now, has_halted, globals, methods, task_counter, entities,
                   agenda, trajectory, liveness, fiber_counter, performed,
                   dispatched, halted, wakes>>

\* Action::DefGlobalMethod
ExecDefGlobalMethod ==
    /\ Running("DefGlobalMethod")
    /\ LET a == Fetched(Top)
       IN  methods' = (a.name :> [params |-> a.params, script |-> a.script])
                      @@ methods
    /\ runs' = SetTop(runs, Advance(Top))
    /\ ev' = Event("DefGlobalMethod", Top)
    /\ UNCHANGED <<now, has_halted, globals, task_counter, entities, agenda,
                   trajectory, positions, liveness, call, result, fiber_counter,
                   performed, dispatched, halted, wakes>>

\* a Call that binds no parameter
BindNone(params, vals) == EmptyMap

\* the locals of a callee: each parameter bound to its argument's value
Bind(params, vals) ==
    [n \in {params[i] : i \in 1..Len(params)} |->
        vals[CHOOSE i \in 1..Len(params) :
                /\ params[i] = n
                /\ \A j \in (i + 1)..Len(params) : params[j] # n]]

\* a Call that does not compare the number of arguments with the number of
\* parameters
CallCheckNameOnly(a) ==
    IF a.name \notin DOMAIN methods THEN "NoSuchMethod" ELSE ""

\* the checks of Call before any argument is evaluated: the error, or ""
CallCheck(a) ==
    IF a.name \notin DOMAIN methods THEN "NoSuchMethod"
    ELSE IF Len(methods[a.name].params) # Len(a.args) THEN "ArgListMismatch"
    ELSE ""

\* Action::Call
ExecCall ==
    /\ Running("Call")
    /\ Len(Top.stack) < MaxStack
    /\ LET fiber == Advance(Top)
           a == Fetched(Top)
       IN  IF CallCheck(a) # ""
           THEN /\ Fails(CallCheck(a))
                /\ ev' = Failure("Call", Top)
                /\ UNCHANGED positions
           ELSE LET method == methods[a.name]
                    r == eval_args(fiber, a.args, positions, <<>>)
                IN  /\ positions' = r.cache
                    /\ IF r.ok
                       THEN /\ runs' = SetTop(runs,
                                 [fiber EXCEPT !.stack = Append(@,
                                     StackFrame(method.script,
                                                Bind(method.params, r.vals)))])
                            /\ ev' = Event("Call", Top)
                            /\ UNCHANGED <<call, result>>
                       ELSE /\ Fails(r.err)
                            /\ ev' = Failure("Call", Top)
    /\ UNCHANGED <<now, has_halted, globals, methods, task_counter, entities,
                   agenda, trajectory, liveness, fiber_counter, performed,
                   dispatched, halted, wakes>>

\* Action::Return: pop the top frame
ExecReturn ==
    /\ Running("Return")
    /\ LET fiber == Advance(Top)
       IN  runs' = SetTop(runs, [fiber EXCEPT !.stack = Pop(@)])
    /\ ev' = Event("Return", Top)
    /\ UNCHANGED <<world, call, result, fiber_counter, performed, dispatched,
                   halted, wakes>>


(***************************************************************************)
(* The scripts given to perform()                                          *)
(*                                                                         *)
(* A script is a preamble followed by statements.  The preambles build     *)
(* the worlds of the harness scenarios (spawn-wait-halt, rendezvous); the  *)
(* statements after them are drawn freely, at most MaxLen of them.         *)
(***************************************************************************)
\* sequences over S of length 0..n
RECURSIVE SeqsUpTo(_, _)
SeqsUpTo(S, n) ==
    IF n <= 0 THEN {<<>>}
    ELSE LET shorter == SeqsUpTo(S, n - 1)
         IN  shorter \cup {Append(q, x) : q \in shorter, x \in S}

NoArgs == <<>>

\* statements that park, wake, halt and nest
SchedStatements ==
    {Halt, Spawn("A"), Wait(0), Wait(1), Wait(-1),
     ListenFor("s", NoArgs), Transmit("s", NoArgs), Transmit("r", NoArgs),
     AsActor("A", <<Wait(1)>>),
     AsActor("A", <<ListenFor("s", NoArgs), Halt>>),
     AsActor("B", <<Wait(0), Transmit("s", NoArgs)>>)}

\* one statement of every other kind
OtherStatements ==
    {Die, SetAccel(2), Trace(Field(Myself, "position")),
     WriteLocal("x", NumConst(7)),
     DefGlobalMethod("m", <<"x">>, <<Trace(Var("x")), Return>>),
     Call("m", <<NumConst(7)>>), Return}

\* tests/exec_default.rs and the spec's spawn-wait-halt scenario, up to the
\* supervisor's own ListenFor and Halt: an actor that waits and transmits
WaitThenTransmit(d) ==
    <<Spawn("A"), AsActor("A", <<Wait(d), Transmit("s", NoArgs)>>)>>

\* the spec's rendezvous scenario: two actors listening for the same signal
TwoListeners ==
    <<Spawn("A"), Spawn("B"),
      AsActor("A", <<ListenFor("s", NoArgs)>>),
      AsActor("B", <<ListenFor("s", NoArgs)>>)>>

\* an actor with a parked task and listeners for two signals
BusyActor ==
    <<Spawn("A"),
      AsActor("A", <<ListenFor("s", NoArgs)>>),
      AsActor("A", <<ListenFor("r", NoArgs)>>),
      AsActor("A", <<Wait(2)>>)>>

Preambles == {<<>>, WaitThenTransmit(0), WaitThenTransmit(2), TwoListeners, BusyActor}

\* the spawn-wait-halt script as a whole
ExampleScript(d) ==
    WaitThenTransmit(d) \o <<ListenFor("s", NoArgs), Halt>>

\* what a moving actor does: accelerate, coast, wait, read its position,
\* spawn an actor under its own name
MotionStatements ==
    {SetAccel(2), SetAccel(0), Wait(1), Trace(Field(Myself, "position")),
     Spawn("A")}

\* an actor is spawned and runs a body; the supervisor then reads the
\* position of the actor bound to the name
MotionScript(body) ==
    <<Spawn("A"), AsActor("A", body), Trace(Field(Var("A"), "position"))>>

\* what the body of a method does
CalleeStatements ==
    {WriteLocal("x", NumConst(8)), Wait(1), Trace(Var("x")), Return}

\* the argument lists of a call: one argument, and two, the first of which
\* reads a position
ArgLists == {<<Var("x")>>, <<Field(Myself, "position"), Var("x")>>}

\* the spec's method-call scenario: a local is written, the method m(x) is
\* defined, a method is called, and the local is read
CallScript(body, name, args) ==
    <<WriteLocal("x", NumConst(7)), DefGlobalMethod("m", <<"x">>, body),
      Call(name, args), Trace(Var("x"))>>

\* statements that fail: an unbound actor name, an unknown method, an
\* unbound variable in each place that evaluates an expression, a field of
\* a number
FailingStatements ==
    {AsActor("B", <<Halt>>), Call("n", NoArgs), Trace(Var("y")),
     Trace(Field(NumConst(7), "x")), WriteLocal("x", Var("y")),
     ListenFor("s", <<Var("y")>>), Transmit("s", <<Var("y")>>)}

\* an actor is spawned and, at once or after a wait, runs a nested script
\* that fails; the actor and the supervisor would each go on to Die
FailureScripts ==
    {<<Spawn("A"),
       AsActor("A", before \o <<AsActor("A", <<bad>>), Die>>),
       Die>> :
        before \in {<<>>, <<Wait(1)>>}, bad \in FailingStatements}

\* the scripts perform() may be given
Scripts ==
    {p \o t : p \in Preambles,
              t \in SeqsUpTo(SchedStatements, MaxLen)
                    \cup SeqsUpTo(OtherStatements, MaxLen)}
    \cup {MotionScript(body) : body \in SeqsUpTo(MotionStatements, MaxBody)}
    \cup {CallScript(body, name, args) :
            body \in SeqsUpTo(CalleeStatements, MaxBody - 1),
            name \in {"m", "n"}, args \in ArgLists}
    \cup FailureScripts

\* the call of perform(); the model follows workspaces on which perform()
\* is called at most once, before, between or after calls of update() and
\* simulate()
Perform ==
    /\ performed = <<>>
    /\ \E script \in Scripts : PerformScript(script)

Next ==
    \/ Perform
    \/ Update
    \/ Simulate
    \/ SimulateUpdate
    \/ SimulateReturn
    \/ RunEnd
    \/ ExecHalt
    \/ ExecTrace
    \/ ExecSpawn
    \/ ExecAsActor
    \/ ExecSetAccel
    \/ ExecWait
    \/ ExecListenFor
    \/ ExecTransmit
    \/ ExecDie
    \/ ExecWriteLocal
    \/ ExecDefGlobalMethod
    \/ ExecCall
    \/ ExecReturn

Spec == Init /\ [][Next]_vars

\* the steps the program takes by itself once an API call is in progress:
\* simulate's loop and the execution of the fibers
Step ==
    \/ SimulateUpdate
    \/ SimulateReturn
    \/ RunEnd
    \/ ExecHalt
    \/ ExecTrace
    \/ ExecSpawn
    \/ ExecAsActor
    \/ ExecSetAccel
    \/ ExecWait
    \/ ExecListenFor
    \/ ExecTransmit
    \/ ExecDie
    \/ ExecWriteLocal
    \/ ExecDefGlobalMethod
    \/ ExecCall
    \/ ExecReturn

\* the program is sequential: a call in progress keeps executing until it
\* returns; whether and when the API is called again is up to the caller
FairSpec == Spec /\ WF_vars(Step)


(***************************************************************************)
(* Properties                                                              *)
(***************************************************************************)
\* the entities with a task parked in Agenda.next
Parked == {id \in 1..entities : agenda[id].next # <<>>}

\* the token parked on an entity
TokenOf(id) == agenda[id].next[1].token

\* (eta, guid) order, strict
Before(a, b) == a.eta < b.eta \/ (a.eta = b.eta /\ a.guid < b.guid)

Last(q) == q[Len(q)]

\* C1: whenever update dispatches a parked task, that task's token is the
\* least in (eta, guid) order among the tasks parked in any Agenda.next, the
\* task leaves its own agenda's next slot and is the fiber that runs, and no
\* other next slot and no listening table changes.
C1_DispatchTakesLeastToken ==
    [][ (ev'.kind \in {"dispatch", "panic"} /\ Parked # {}) =>
          \E id \in Parked :
            /\ \A other \in Parked \ {id} : Before(TokenOf(id), TokenOf(other))
            /\ agenda' = [agenda EXCEPT ![id].next = <<>>]
            /\ ev'.fid = agenda[id].next[1].fiber.fid
            /\ ev'.kind = "dispatch" =>
                 /\ runs' = <<agenda[id].next[1].fiber>>
                 /\ Last(dispatched').from = id
                 /\ Last(dispatched').guid = TokenOf(id).guid ]_vars

\* a task has been dispatched while an entity created earlier still holds one
C1_Witness ==
    /\ ev.kind = "dispatch"
    /\ Last(dispatched).from # 0
    /\ \E id \in Parked : id < Last(dispatched).from

\* C2: now never decreases, and a dispatch leaves now at the eta of the task
\* it took.
C2_NowMonotone ==
    [][ /\ now' >= now
        /\ (ev'.kind = "dispatch" /\ Parked # {}) =>
              \E id \in Parked : /\ agenda'[id].next = <<>>
                                 /\ now' = TokenOf(id).eta ]_vars

\* a dispatch of a parked task has advanced now
C2_Witness ==
    /\ ev.kind = "dispatch"
    /\ Last(dispatched).from # 0
    /\ Last(dispatched).before < now
    /\ now = Last(dispatched).eta

\* the token of the i-th dispatch
Token(i) == [eta |-> dispatched[i].eta, guid |-> dispatched[i].guid]

\* the dispatches that took a parked task
FromAgenda == {i \in 1..Len(dispatched) : dispatched[i].from # 0}

\* the i-th dispatch ran the listener that the wake-up w re-parked
Ran(i, w) ==
    /\ i > w.at
    /\ dispatched[i].fid = w.fid
    /\ dispatched[i].guid = w.guid

\* C3 as stated: the tokens of the tasks dispatched by successive updates
\* are non-decreasing in (eta, guid) order.
C3_TokensNonDecreasing ==
    \A i, j \in FromAgenda : i < j => ~Before(Token(j), Token(i))

\* C3: the etas of successive dispatches are non-decreasing, and a task is
\* dispatched after one of the same eta and a newer guid only when it is a
\* listener that a Transmit woke after that earlier dispatch; every other
\* pair of equal eta is dispatched older guid first.
C3_DispatchOrder ==
    \A i, j \in 1..Len(dispatched) :
       i < j =>
         /\ dispatched[i].eta <= dispatched[j].eta
         /\ (i \in FromAgenda /\ j \in FromAgenda /\ Before(Token(j), Token(i))) =>
               \E w \in wakes : Ran(j, w) /\ w.at >= i /\ w.t = dispatched[j].eta

\* two parked tasks of one eta, neither woken by a Transmit, have been
\* dispatched, the older guid first
C3_Witness ==
    \E i, j \in FromAgenda :
       /\ i < j
       /\ dispatched[i].eta = dispatched[j].eta
       /\ dispatched[i].guid < dispatched[j].guid
       /\ \A w \in wakes : ~Ran(i, w) /\ ~Ran(j, w)

\* two wake-ups of one Transmit, on two actors, the first the older listener
SameTransmit(w1, w2) == w1.tx = w2.tx /\ w1.me # w2.me /\ w1.guid < w2.guid

\* C4 as stated: once a task of a later eta has been dispatched, both
\* listeners have been dispatched before it with now = t, the older first.
C4_BothListenersDispatched ==
    \A w1, w2 \in wakes :
       SameTransmit(w1, w2) =>
         \A k \in 1..Len(dispatched) :
            (k > w1.at /\ dispatched[k].eta > w1.t) =>
               \E i, j \in 1..(k - 1) :
                  /\ i < j
                  /\ Ran(i, w1) /\ dispatched[i].eta = w1.t
                  /\ Ran(j, w2) /\ dispatched[j].eta = w2.t

\* the task that the wake-up w installed is still in its actor's next slot
StillParked(w) ==
    /\ agenda[w.me].next # <<>>
    /\ agenda[w.me].next[1].fiber.fid = w.fid
    /\ agenda[w.me].next[1].token.guid = w.guid

\* C4: a woken listener is dispatched only with now = t; of two listeners
\* woken by one Transmit the older is never dispatched after the newer; and
\* no task of a later eta is dispatched while a woken listener is still
\* parked.  (A woken listener whose next slot is overwritten is never
\* dispatched.)
C4_RendezvousOrder ==
    /\ \A w \in wakes : \A i \in 1..Len(dispatched) :
          Ran(i, w) => dispatched[i].eta = w.t
    /\ \A w1, w2 \in wakes :
          SameTransmit(w1, w2) =>
             \A i, j \in 1..Len(dispatched) : (Ran(i, w1) /\ Ran(j, w2)) => i < j
    /\ \A w \in wakes :
          StillParked(w) =>
             \A k \in 1..Len(dispatched) : k > w.at => dispatched[k].eta <= w.t

\* both listeners have been dispatched at t, the older first, and a task of
\* a later eta after them
C4_Witness ==
    \E w1, w2 \in wakes :
       /\ SameTransmit(w1, w2)
       /\ \E i, j, k \in 1..Len(dispatched) :
             /\ i < j /\ j < k
             /\ Ran(i, w1) /\ Ran(j, w2)
             /\ dispatched[k].eta > w1.t
             /\ dispatched[k].from # 0

\* the signal that the Transmit on top of the running fiber sends
Sent ==
    LET a == Fetched(Top)
    IN  Signal(a.name, eval_args(Advance(Top), a.args, positions, <<>>).vals)

\* C5: a Transmit that completes leaves no listening table with an entry for
\* its signal; every actor that had one holds in next that listener's fiber
\* with eta = now and the listener's guid; listeners for other signals and
\* the agendas of actors that were not listening are unchanged; and the
\* transmitting fiber stays the running fiber, one action further on.
C5_TransmitWakesListeners ==
    [][ (ev'.kind = "Transmit" /\ ev'.ok) =>
          /\ DOMAIN agenda' = DOMAIN agenda
          /\ \A id \in DOMAIN agenda :
                /\ Sent \notin DOMAIN agenda'[id].listening
                /\ DOMAIN agenda'[id].listening = DOMAIN agenda[id].listening \ {Sent}
                /\ \A s \in DOMAIN agenda'[id].listening :
                      agenda'[id].listening[s] = agenda[id].listening[s]
                /\ IF Sent \in DOMAIN agenda[id].listening
                   THEN agenda'[id].next =
                          << [token |-> [eta |-> now,
                                         guid |-> agenda[id].listening[Sent].guid],
                              fiber |-> agenda[id].listening[Sent].fiber] >>
                   ELSE agenda'[id].next = agenda[id].next
          /\ Len(runs') = Len(runs)
          /\ runs'[Len(runs')] = Advance(Top)
          /\ now' = now ]_vars

\* a Transmit has just woken a listener on an actor that goes on listening
\* for another signal, and the transmitter is still running
C5_Witness ==
    /\ ev.kind = "Transmit" /\ ev.ok
    /\ runs # <<>> /\ Top.fid = ev.fid
    /\ \E w \in wakes :
          /\ w.sender = ev.fid /\ w.at = Len(dispatched) /\ w.t = now
          /\ StillParked(w)
          /\ agenda[w.me].next[1].token.eta = now
          /\ DOMAIN agenda[w.me].listening # {}
          /\ w.signal \notin DOMAIN agenda[w.me].listening

\* the steps that execute an action of a script
Actions == {"Halt", "Trace", "Spawn", "AsActor", "SetAccel", "Wait",
            "ListenFor", "Transmit", "Die", "WriteLocal", "DefGlobalMethod",
            "Call", "Return"}

\* C6 as stated: a fiber that has executed Halt executes no further action.
C6_NoActionAfterHalt ==
    [][ ev'.kind \in Actions => ev'.fid \notin halted ]_vars

\* the errors a call can return, and the failed assertion of update()
Errors == {"NoSuchGlobal", "MissingPosition", "CouldNotWrite", "NoSuchField",
           "NoSuchMethod", "ArgListMismatch", "panic"}

\* nothing but empty scripts has been performed
OnlyEmptyScripts == \A i \in 1..Len(performed) : performed[i].script = <<>>

\* every dispatch so far was made by simulate()
OnlySimulated == \A i \in 1..Len(dispatched) : dispatched[i].by = "simulate"

\* C7: an update that finds no parked task advances now by one second and
\* runs a new fiber of the supervisor whose script is the single action
\* Halt, changing no agenda; when that run ends has_halted is true and now
\* is still one second past its old value; and when simulate() returns in a
\* world where only empty scripts were performed and only simulate() has
\* dispatched, there has been exactly one dispatch, now = 1 and has_halted.
C7_EmptyAgendaHalts ==
    [][ /\ (ev'.kind = "dispatch" /\ Parked = {}) =>
              /\ now' = now + 1
              /\ Len(runs') = 1
              /\ runs'[1].me = supervisor
              /\ runs'[1].stack = << [pc |-> 0, script |-> <<Halt>>,
                                      locals |-> EmptyMap] >>
              /\ agenda' = agenda
              /\ Last(dispatched').from = 0
        /\ (/\ ev'.kind = "end"
            /\ dispatched # <<>>
            /\ Last(dispatched).from = 0
            /\ ev'.fid = Last(dispatched).fid) =>
              /\ has_halted'
              /\ now' = Last(dispatched).before + 1
              /\ runs' = <<>>
        /\ (ev'.kind = "return" /\ OnlyEmptyScripts /\ OnlySimulated) =>
              /\ Len(dispatched') = 1
              /\ now' = 1
              /\ has_halted'
              /\ result' = "Ok" ]_vars

\* simulate() has returned after one dispatch, of the Halt made up for an
\* empty agenda, in a world where an empty script was performed
C7_Witness ==
    /\ ev.kind = "return"
    /\ performed # <<>> /\ OnlyEmptyScripts
    /\ OnlySimulated
    /\ Len(dispatched) = 1 /\ dispatched[1].from = 0
    /\ now = 1 /\ has_halted

\* the delays of the spawn-wait-halt script that are tried
Delays == {0, 2}

\* the spawn-wait-halt script has been performed, in a new world
Example(d) == performed = << [script |-> ExampleScript(d), at |-> 0] >>

\* C8: after perform of Spawn A; AsActor A { Wait(d); Transmit s };
\* ListenFor s; Halt in a new world no call returns an error, no dispatch is
\* of a Halt made up for an empty agenda before the world halts, the world
\* halts by the Halt of the performing fiber, dispatched from the
\* supervisor's agenda at now = d after a Transmit at d woke it, and
\* simulate(), when it made every dispatch, returns Ok with now = d.
C8_SpawnWaitHalt ==
    [][ \A d \in Delays :
          Example(d)' =>
            /\ result' \notin Errors
            /\ (has_halted' /\ ~has_halted) =>
                  /\ ev'.kind = "Halt"
                  /\ now' = d
                  /\ ev'.fid = 1 /\ ev'.me = supervisor
                  /\ \A i \in 1..Len(dispatched) : dispatched[i].from # 0
                  /\ Last(dispatched).fid = 1
                  /\ \E w \in wakes :
                        /\ w.me = supervisor /\ w.fid = 1 /\ w.t = d
                        /\ w.sender # 1
                        /\ Ran(Len(dispatched), w)
            /\ (ev'.kind = "return" /\ OnlySimulated) =>
                  /\ now' = d
                  /\ has_halted'
                  /\ result' = "Ok" ]_vars

\* the script with d = 2 was performed and simulate() has returned at now = 2
C8_Witness ==
    /\ Example(2)
    /\ ev.kind = "return"
    /\ OnlySimulated
    /\ result = "Ok"
    /\ has_halted
    /\ now = 2
    /\ \E w \in wakes : w.me = supervisor /\ w.t = 2

\* the running fiber has been parked, one action further on, on its actor
ParkedOnItsActor ==
    \/ /\ agenda'[Top.me].next # <<>>
       /\ agenda'[Top.me].next[1].fiber = Advance(Top)
    \/ \E s \in DOMAIN agenda'[Top.me].listening :
          agenda'[Top.me].listening[s].fiber = Advance(Top)

ParkedIn(ag, fid) ==
    \/ ag.next # <<>> /\ ag.next[1].fiber.fid = fid
    \/ \E s \in DOMAIN ag.listening : ag.listening[s].fiber.fid = fid

ParkedOn(fid, id) == ParkedIn(agenda[id], fid)

\* the fibers parked in some agenda
ParkedFibers == {fid \in 1..fiber_counter : \E id \in DOMAIN agenda : ParkedOn(fid, id)}

\* C10: AsActor { name, script } runs the script on a fiber of the actor
\* bound to name; when that fiber executes Wait or ListenFor it is parked on
\* that actor's agenda and on no other, the outer fiber is parked nowhere
\* and is the running fiber again, unchanged, at the same instant; and a
\* parked fiber runs again only as the fiber that an update dispatches.
C10_NestedSuspension ==
    [][ /\ (ev'.kind = "AsActor" /\ ev'.ok) =>
              /\ Len(runs') = Len(runs) + 1
              /\ runs'[Len(runs')].me = globals[Fetched(Top).name]
              /\ runs'[Len(runs')].stack[1].script = Fetched(Top).script
              /\ runs'[Len(runs)] = Advance(Top)
        /\ (ev'.kind \in {"Wait", "ListenFor"} /\ ev'.ok /\ Len(runs) >= 2) =>
              /\ runs' = Pop(runs)
              /\ now' = now
              /\ ParkedIn(agenda'[Top.me], Top.fid)
              /\ \A id \in DOMAIN agenda : ParkedIn(agenda'[id], Top.fid) => id = Top.me
              /\ \A id \in DOMAIN agenda : ~ParkedIn(agenda'[id], runs[Len(runs) - 1].fid)
        /\ \A i \in 1..Len(runs') :
              runs'[i].fid \in ParkedFibers =>
                 /\ ev'.kind = "dispatch"
                 /\ now' >= now
                 /\ Len(runs') = 1
                 /\ runs = <<>> ]_vars

\* a fiber nested in AsActor has just suspended on an actor other than the
\* outer fiber's, where it is parked, and the outer fiber is running
C10_Witness ==
    /\ ev.kind \in {"Wait", "ListenFor"} /\ ev.ok
    /\ ev.depth = 2
    /\ Len(runs) = 1
    /\ Top.me # ev.me
    /\ CanFetch(Top)
    /\ ParkedOn(ev.fid, ev.me)
    /\ ~ParkedOn(ev.fid, Top.me)

\* the trajectory of an entity in the storage tr: its component, or the
\* default for an entity without one
TrajectoryOf(tr, id) == IF id \in DOMAIN tr THEN tr[id] ELSE TrajectoryDefault

\* the position of an entity at the instant t
PositionAt(tr, id, t) == sample_at(TrajectoryOf(tr, id), t)

\* C11: every entry of the position cache is the actor's trajectory sampled
\* at now; while now stays the same the position of every actor stays the
\* same, across SetAccel and across dispatches at the same eta; the
\* position that SetAccel and Spawn read is that position; and a dispatch
\* that advances now leaves no entry in the cache.
C11_PositionStableWithinInstant ==
    [][ /\ \A id \in DOMAIN positions' :
              positions'[id] = PositionAt(trajectory', id, now')
        /\ now' = now =>
              \A id \in 1..entities :
                 PositionAt(trajectory', id, now') = PositionAt(trajectory, id, now)
        /\ (ev'.kind = "SetAccel" /\ ev'.ok) =>
              trajectory'[ev'.me].place = PositionAt(trajectory, ev'.me, now)
        /\ ev'.kind = "Spawn" =>
              trajectory'[entities'] = Fixed(PositionAt(trajectory, ev'.me, now))
        /\ (ev'.kind = "dispatch" /\ now' # now) => positions' = EmptyMap ]_vars

\* a moving actor has read its position and then changed its acceleration
\* in the same instant, and the cached position is away from the origin
C11_Witness ==
    /\ ev.kind = "SetAccel" /\ ev.ok
    /\ now > 0
    /\ ev.me \in DOMAIN positions
    /\ positions[ev.me] # 0
    /\ trajectory[ev.me].kind = "Linear"
    /\ trajectory[ev.me].time = now
    /\ trajectory[ev.me].vel # 0

\* C12 as stated: for every Linear trajectory, with dt = now - start_time,
\* the velocity at now is start_velocity + accel * dt and the position at now
\* is start_place + start_velocity * dt + accel * dt^2 / 2.
C12_KinematicFormula ==
    \A id \in DOMAIN trajectory :
       trajectory[id].kind = "Linear" =>
          LET tr == trajectory[id]
              dt == now - tr.time
          IN  /\ velocity_at(tr, now) = tr.vel + tr.accel * dt
              /\ sample_at(tr, now) =
                    tr.place + tr.vel * dt + (tr.accel * dt * dt) \div 2

\* the action the running fiber executed last, when it has executed one in
\* its top frame
LastFetched(fiber) == Frame(fiber).script[Frame(fiber).pc]

\* the running fiber is about to execute SetAccel(0), and the step before
\* was its SetAccel(0), on a trajectory of its actor
SecondSetAccelZero ==
    /\ Running("SetAccel")
    /\ Fetched(Top) = SetAccel(0)
    /\ Frame(Top).pc >= 1
    /\ LastFetched(Top) = SetAccel(0)
    /\ ev.kind = "SetAccel" /\ ev.ok /\ ev.fid = Top.fid
    /\ Top.me \in DOMAIN trajectory

\* C13 as stated: SetAccel(0) right after SetAccel(0) leaves a Fixed
\* trajectory at the actor's current position.
C13_TwiceZeroIsFixed ==
    [][ SecondSetAccelZero =>
          trajectory'[Top.me] = Fixed(PositionAt(trajectory, Top.me, now)) ]_vars

\* C13: SetAccel(0) right after SetAccel(0) leaves the trajectory as the
\* first left it: Fixed at the actor's current position when the actor is
\* at rest, and otherwise Linear from the current position, from now, with
\* the actor's velocity and no acceleration.
C13_TwiceZeroKeepsTrajectory ==
    [][ SecondSetAccelZero =>
          LET tr == trajectory[Top.me]
              place == PositionAt(trajectory, Top.me, now)
          IN  /\ ev'.ok
              /\ trajectory'[Top.me] = tr
              /\ tr.kind = "Fixed" => tr = Fixed(place)
              /\ tr.kind = "Linear" =>
                    /\ tr.vel # 0
                    /\ tr = Linear(place, now, tr.vel, 0) ]_vars

\* a moving actor has executed SetAccel(0) twice in a row, and its
\* trajectory is Linear, from where it is now, without acceleration
C13_Witness ==
    /\ ev.kind = "SetAccel" /\ ev.ok
    /\ runs # <<>> /\ Top.fid = ev.fid
    /\ Frame(Top).pc >= 2
    /\ LastFetched(Top) = SetAccel(0)
    /\ Frame(Top).script[Frame(Top).pc - 1] = SetAccel(0)
    /\ trajectory[ev.me].kind = "Linear"
    /\ trajectory[ev.me].accel = 0
    /\ trajectory[ev.me].vel # 0
    /\ trajectory[ev.me].time = now
    /\ trajectory[ev.me].place # 0

\* the places of the agendas ag that hold a fiber with a guid: the next
\* slot of an entity, when taken, and each of its listeners
Slots(ag) ==
    {[id |-> i, next |-> TRUE, sig |-> Signal("", <<>>)] :
        i \in {j \in DOMAIN ag : ag[j].next # <<>>}}
    \cup UNION {{[id |-> i, next |-> FALSE, sig |-> sg] :
                    sg \in DOMAIN ag[i].listening} : i \in DOMAIN ag}

\* the guid held in a place
GuidIn(ag, slot) ==
    IF slot.next THEN ag[slot.id].next[1].token.guid
    ELSE ag[slot.id].listening[slot.sig].guid

\* C14: each Wait and ListenFor draws the guid task_counter, which is
\* greater than every guid parked, listening or dispatched before, and
\* advances the counter by one; no other step changes the counter, a
\* Transmit in particular; and no two parked tasks or listeners share a guid.
C14_GuidsIncrease ==
    [][ /\ ev'.kind \in {"Wait", "ListenFor"} =>
              /\ task_counter' = task_counter + 1
              /\ \A slot \in Slots(agenda) : GuidIn(agenda, slot) < task_counter
              /\ \A i \in 1..Len(dispatched) : dispatched[i].guid < task_counter
              /\ ev'.ok =>
                    \E slot \in Slots(agenda') :
                       /\ slot.id = ev'.me
                       /\ GuidIn(agenda', slot) = task_counter
        /\ ev'.kind \notin {"Wait", "ListenFor"} => task_counter' = task_counter
        /\ \A slot \in Slots(agenda') : GuidIn(agenda', slot) < task_counter'
        /\ \A s1, s2 \in Slots(agenda') :
              s1 # s2 => GuidIn(agenda', s1) # GuidIn(agenda', s2) ]_vars

\* after a Transmit has woken a listener, a Wait has drawn the fourth guid
\* or a later one, while two other fibers are parked or listening
C14_Witness ==
    /\ ev.kind = "Wait" /\ ev.ok
    /\ task_counter >= 4
    /\ wakes # {}
    /\ Cardinality(Slots(agenda)) >= 3
    /\ \E slot \in Slots(agenda) :
          /\ slot.next /\ slot.id = ev.me
          /\ GuidIn(agenda, slot) = task_counter - 1

\* C15: a Call of a name that is not in the method table fails with
\* NoSuchMethod, and a Call whose number of arguments differs from the
\* method's number of parameters fails with ArgListMismatch; a Call fails
\* with these errors in no other case; and the failing Call pushes no
\* frame, leaves the position cache as it was (no argument is evaluated) and
\* leaves the method table, the globals, the agendas and now unchanged.
C15_CallErrors ==
    [][ ev'.kind = "Call" =>
          LET a == Fetched(Top)
              absent == a.name \notin DOMAIN methods
              mismatch == ~absent /\ Len(methods[a.name].params) # Len(a.args)
          IN  /\ absent => (~ev'.ok /\ result' = "NoSuchMethod")
              /\ mismatch => (~ev'.ok /\ result' = "ArgListMismatch")
              /\ (result' = "NoSuchMethod") => absent
              /\ (result' = "ArgListMismatch") => mismatch
              /\ (absent \/ mismatch) =>
                    /\ runs' = <<>>
                    /\ call' = "idle"
                    /\ positions' = positions
                    /\ methods' = methods
                    /\ globals' = globals
                    /\ agenda' = agenda
                    /\ now' = now ]_vars

\* a Call with two arguments, the first of which reads a position, of a
\* method with one parameter has failed, and no position has been read
C15_Witness ==
    /\ ev.kind = "Call" /\ ~ev.ok
    /\ result = "ArgListMismatch"
    /\ "m" \in DOMAIN methods
    /\ Len(methods["m"].params) = 1
    /\ \E i \in 1..Len(performed[1].script) :
          /\ performed[1].script[i].op = "Call"
          /\ Len(performed[1].script[i].args) = 2
    /\ positions = EmptyMap
    /\ runs = <<>>

\* C16 as stated: no call returns CouldNotWrite.
C16_NeverCouldNotWrite == result # "CouldNotWrite"

\* the fibers in the runs rs
RunningFibers(rs) == {rs[i].fid : i \in 1..Len(rs)}

\* the fibers held in the agendas ag
HeldFibers(ag) ==
    {ag[i].next[1].fiber.fid : i \in {j \in DOMAIN ag : ag[j].next # <<>>}}
    \cup UNION {{ag[i].listening[sg].fiber.fid : sg \in DOMAIN ag[i].listening} :
                   i \in DOMAIN ag}

\* the fibers that neither run nor are held in an agenda
Gone(rs, ag, n) == (1..n) \ (RunningFibers(rs) \cup HeldFibers(ag))

\* C17: when an action fails, the call in progress (perform, update or
\* simulate) returns that error; every fiber that was running, the failing
\* one and the fibers of the enclosing runs, stops and is held in no agenda;
\* the world keeps the effects of the actions executed before (nothing but
\* the position cache and the guid counter changes in the failing step); an
\* AsActor of an unbound name fails with NoSuchGlobal and makes no fiber;
\* and a fiber that neither runs nor is held in an agenda never executes an
\* action or is dispatched again.
C17_ErrorsPropagate ==
    [][ /\ (ev'.kind \in Actions /\ ~ev'.ok) =>
              /\ result' \in Errors \ {"panic"}
              /\ call' = "idle"
              /\ runs' = <<>>
              /\ RunningFibers(runs) \subseteq Gone(runs', agenda', fiber_counter')
              /\ fiber_counter' = fiber_counter
              /\ UNCHANGED <<now, has_halted, globals, methods, entities, agenda,
                             trajectory, liveness>>
        /\ (ev'.kind = "AsActor" /\ Fetched(Top).name \notin DOMAIN globals) =>
              (~ev'.ok /\ result' = "NoSuchGlobal")
        /\ Gone(runs, agenda, fiber_counter)
              \subseteq Gone(runs', agenda', fiber_counter')
        /\ ev'.kind \in Actions \cup {"dispatch", "end"} =>
              ev'.fid \notin Gone(runs, agenda, fiber_counter) ]_vars

\* in simulate(), a dispatched fiber has run a nested script that failed:
\* the call has returned the error, the Die that the supervisor executed
\* before is kept, and the Die that the dispatched fiber had still to
\* execute after the nested script was not executed
C17_Witness ==
    /\ ev.kind \in Actions /\ ~ev.ok
    /\ ev.depth = 2
    /\ dispatched # <<>> /\ Last(dispatched).by = "simulate"
    /\ result \in Errors
    /\ call = "idle"
    /\ runs = <<>>
    /\ DOMAIN liveness = {supervisor}
    /\ Last(dispatched).fid \in Gone(runs, agenda, fiber_counter)
    /\ ev.fid \in Gone(runs, agenda, fiber_counter)

\* C18: the next slot of an agenda never holds more than one task; when a
\* Transmit wakes a listener of an actor whose next slot is taken, or a
\* fiber executes Wait as an actor whose next slot is taken, the slot holds
\* the new task alone and the fiber of the task it held neither runs nor is
\* held in any agenda; and such a fiber is never dispatched again.
C18_LastWriterWins ==
    [][ /\ \A id \in DOMAIN agenda' : Len(agenda'[id].next) <= 1
        /\ (ev'.kind = "Transmit" /\ ev'.ok) =>
              \A id \in DOMAIN agenda :
                 (Sent \in DOMAIN agenda[id].listening /\ agenda[id].next # <<>>) =>
                    /\ Len(agenda'[id].next) = 1
                    /\ agenda'[id].next[1].fiber = agenda[id].listening[Sent].fiber
                    /\ agenda[id].next[1].fiber.fid
                          \in Gone(runs', agenda', fiber_counter')
        /\ (ev'.kind = "Wait" /\ agenda[Top.me].next # <<>>) =>
              /\ Len(agenda'[Top.me].next) = 1
              /\ agenda'[Top.me].next[1].fiber = Advance(Top)
              /\ agenda[Top.me].next[1].fiber.fid
                    \in Gone(runs', agenda', fiber_counter')
        /\ \A fid \in Gone(runs, agenda, fiber_counter) :
              /\ fid \in Gone(runs', agenda', fiber_counter')
              /\ ev'.kind = "dispatch" => Last(dispatched').fid # fid ]_vars

\* a Transmit has woken a listener into a next slot that held a task: with
\* no dispatch and no error so far, one guid more has been drawn than
\* tasks and listeners are held, and the woken listener is in the slot
C18_Witness ==
    /\ ev.kind = "Transmit" /\ ev.ok
    /\ dispatched = <<>>
    /\ result = "none"
    /\ \E w \in wakes : StillParked(w) /\ DOMAIN agenda[w.me].listening # {}
    /\ task_counter = Cardinality(Slots(agenda)) + 1
    /\ Gone(runs, agenda, fiber_counter) # {}

\* the fiber on top of the runs rs
TopOf(rs) == rs[Len(rs)]

\* the script is one of the method-call scenario: a local x = 7 is written,
\* a method is defined and a method is called
MethodCallScript(script) ==
    /\ Len(script) = 4
    /\ script[1] = WriteLocal("x", NumConst(7))
    /\ script[2].op = "DefGlobalMethod"
    /\ script[3].op = "Call"

\* the fibers running or held in an agenda
LiveFibers(rs, ag) ==
    {rs[i] : i \in 1..Len(rs)}
    \cup {ag[i].next[1].fiber : i \in {j \in DOMAIN ag : ag[j].next # <<>>}}
    \cup UNION {{ag[i].listening[sg].fiber : sg \in DOMAIN ag[i].listening} :
                   i \in DOMAIN ag}

\* C19: a Call that succeeds pushes one frame, with pc = 0, the method's
\* script and locals that bind exactly the parameters, each to the value of
\* its argument in the caller frame, on the stack of the fiber, whose
\* caller frame has stepped past the Call and is otherwise unchanged;
\* WriteLocal changes the top frame only; Return pops the top frame and
\* leaves every frame below as it is; a Wait parks the fiber with its whole
\* stack and the dispatch runs it as parked; so in the method-call scenario
\* the performing fiber, whenever it is back in its first frame, holds x = 7.
C19_CallReturnPreservesCaller ==
    [][ /\ (ev'.kind = "Call" /\ ev'.ok) =>
              LET a == Fetched(Top)
                  method == methods[a.name]
                  new == TopOf(runs').stack[Len(Top.stack) + 1]
              IN  /\ Len(TopOf(runs').stack) = Len(Top.stack) + 1
                  /\ \A k \in 1..Len(Top.stack) :
                        TopOf(runs').stack[k] = Advance(Top).stack[k]
                  /\ new.pc = 0
                  /\ new.script = method.script
                  /\ DOMAIN new.locals =
                        {method.params[i] : i \in 1..Len(method.params)}
                  /\ \A i \in 1..Len(method.params) :
                        (\A j \in (i + 1)..Len(method.params) :
                            method.params[j] # method.params[i]) =>
                           new.locals[method.params[i]] =
                              eval_expr(Top, a.args[i], positions').val
        /\ (ev'.kind = "WriteLocal" /\ ev'.ok) =>
              /\ Len(TopOf(runs').stack) = Len(Top.stack)
              /\ \A k \in 1..(Len(Top.stack) - 1) :
                    TopOf(runs').stack[k] = Top.stack[k]
              /\ Frame(TopOf(runs')).script = Frame(Top).script
              /\ Frame(TopOf(runs')).pc = Frame(Top).pc + 1
              /\ \A n \in DOMAIN Frame(Top).locals \ {Fetched(Top).name} :
                    /\ n \in DOMAIN Frame(TopOf(runs')).locals
                    /\ Frame(TopOf(runs')).locals[n] = Frame(Top).locals[n]
        /\ ev'.kind = "Return" =>
              /\ Len(runs') = Len(runs)
              /\ TopOf(runs').stack = Pop(Top.stack)
        /\ (ev'.kind = "Wait" /\ Len(Top.stack) >= 2) =>
              agenda'[Top.me].next = << [token |-> [eta |-> now + Fetched(Top).num,
                                                    guid |-> task_counter],
                                         fiber |-> Advance(Top)] >>
        /\ (ev'.kind = "dispatch" /\ Parked # {}) =>
              \E id \in Parked : runs' = <<agenda[id].next[1].fiber>>
        /\ (performed' # <<>> /\ MethodCallScript(performed'[1].script)) =>
              \A fiber \in LiveFibers(runs', agenda') :
                 (fiber.fid = 1 /\ Len(fiber.stack) = 1 /\ Frame(fiber).pc >= 1) =>
                    Frame(fiber).locals = [n \in {"x"} |-> Num(7)] ]_vars

\* the callee wrote its local x, suspended on Wait, was dispatched and
\* executed Return: the fiber is in the caller frame, past the Call, with
\* x = 7 as the caller wrote it
C19_Witness ==
    /\ ev.kind = "Return" /\ ev.fid = 1
    /\ performed # <<>> /\ MethodCallScript(performed[1].script)
    /\ \E i \in 1..Len(performed[1].script[2].script) :
          performed[1].script[2].script[i] = WriteLocal("x", NumConst(8))
    /\ dispatched # <<>> /\ Last(dispatched).fid = 1 /\ Last(dispatched).eta = 1
    /\ runs # <<>> /\ Top.fid = 1
    /\ Len(Top.stack) = 1
    /\ Frame(Top).pc = 3
    /\ CanFetch(Top)
    /\ Frame(Top).locals = [n \in {"x"} |-> Num(7)]

\* the entities that no global name is bound to
Unbound == (1..entities) \ {globals[n] : n \in DOMAIN globals}

\* C20: Spawn { name } makes one new entity, with an empty agenda and a
\* Fixed trajectory at the spawner's position at now, and binds name to it;
\* every other binding, and the agenda and trajectory of every entity there
\* was, the one name was bound to included, are unchanged and the spawner
\* goes on running; every entity keeps an agenda, which update scans and
\* Transmit visits whether or not a name is bound to it.
C20_SpawnRebinds ==
    [][ /\ ev'.kind = "Spawn" =>
              LET name == Fetched(Top).name
                  new == entities + 1
              IN  /\ entities' = new
                  /\ agenda'[new] = [next |-> <<>>, listening |-> EmptyMap]
                  /\ trajectory'[new] =
                        Fixed(PositionAt(trajectory, Top.me, now))
                  /\ DOMAIN globals' = DOMAIN globals \cup {name}
                  /\ globals'[name] = new
                  /\ \A n \in DOMAIN globals \ {name} : globals'[n] = globals[n]
                  /\ \A id \in 1..entities : agenda'[id] = agenda[id]
                  /\ DOMAIN trajectory' = DOMAIN trajectory \cup {new}
                  /\ \A id \in DOMAIN trajectory : trajectory'[id] = trajectory[id]
                  /\ runs' = SetTop(runs, Advance(Top))
                  /\ now' = now
        /\ DOMAIN agenda' = 1..entities'
        /\ (ev'.kind = "dispatch" /\ Parked # {}) =>
              \E id \in Parked :
                 /\ Last(dispatched').from = id
                 /\ \A other \in Parked \ {id} :
                       Before(TokenOf(id), TokenOf(other))
        /\ (ev'.kind = "Transmit" /\ ev'.ok) =>
              \A id \in 1..entities :
                 Sent \in DOMAIN agenda[id].listening =>
                    /\ agenda'[id].next # <<>>
                    /\ agenda'[id].next[1].fiber = agenda[id].listening[Sent].fiber ]_vars

\* a moving actor spawned an actor under its own name, which stands where
\* the spawner was; the spawner, bound to no name any more, kept its
\* trajectory and its parked task, and has been dispatched
C20_Witness ==
    /\ ev.kind = "dispatch"
    /\ Last(dispatched).from \in Unbound
    /\ Last(dispatched).from \in DOMAIN trajectory
    /\ trajectory[Last(dispatched).from].kind = "Linear"
    /\ "A" \in DOMAIN globals
    /\ globals["A"] > Last(dispatched).from
    /\ trajectory[globals["A"]].kind = "Fixed"
    /\ trajectory[globals["A"]].place # 0

\* the signal that the ListenFor on top of the running fiber listens for
Heard ==
    LET a == Fetched(Top)
    IN  Signal(a.name, eval_args(Advance(Top), a.args, positions, <<>>).vals)

\* the rendezvous scenario, after which a third fiber listens for the same
\* signal as the first actor and the supervisor transmits that signal
ListenTwice ==
    TwoListeners \o <<AsActor("A", <<ListenFor("s", NoArgs), Halt>>),
                      Transmit("s", NoArgs)>>

\* C21: a ListenFor that completes leaves its actor's listening table with
\* one entry for its signal, carrying the guid just drawn and the fiber
\* that executed it; the entries for other signals, the next slot and the
\* other agendas are unchanged; the fiber of an entry it replaced neither
\* runs nor is held in any agenda, and such a fiber is never woken,
\* dispatched or run again: a Transmit wakes the fiber its signal's entry
\* carries.
C21_ListenForOverwrites ==
    [][ /\ (ev'.kind = "ListenFor" /\ ev'.ok) =>
              LET me == Top.me
              IN  /\ DOMAIN agenda'[me].listening
                        = DOMAIN agenda[me].listening \cup {Heard}
                  /\ agenda'[me].listening[Heard]
                        = [guid |-> task_counter, fiber |-> Advance(Top)]
                  /\ \A sg \in DOMAIN agenda[me].listening \ {Heard} :
                        agenda'[me].listening[sg] = agenda[me].listening[sg]
                  /\ agenda'[me].next = agenda[me].next
                  /\ \A id \in DOMAIN agenda \ {me} : agenda'[id] = agenda[id]
                  /\ Heard \in DOMAIN agenda[me].listening =>
                        /\ agenda[me].listening[Heard].guid < task_counter
                        /\ agenda[me].listening[Heard].fiber.fid
                              \in Gone(runs', agenda', fiber_counter')
        /\ (ev'.kind = "Transmit" /\ ev'.ok) =>
              /\ \A id \in DOMAIN agenda :
                    Sent \in DOMAIN agenda[id].listening =>
                       agenda'[id].next[1].fiber = agenda[id].listening[Sent].fiber
              /\ \A w \in wakes' \ wakes :
                    w.fid \notin Gone(runs, agenda, fiber_counter)
        /\ \A fid \in Gone(runs, agenda, fiber_counter) :
              /\ fid \in Gone(runs', agenda', fiber_counter')
              /\ ev'.kind \in Actions \cup {"dispatch", "end"} => ev'.fid # fid ]_vars

\* two actors listened for a signal, a third fiber listened for it as the
\* first actor, and the signal was transmitted: the third fiber was woken,
\* dispatched and has run its Halt; the first actor's earlier listener was
\* not woken and is held nowhere
C21_Witness ==
    /\ performed # <<>> /\ performed[1].script = ListenTwice
    /\ ev.kind = "Halt"
    /\ \E w \in wakes :
          /\ w.fid = ev.fid
          /\ Last(dispatched).fid = w.fid
          /\ w.me = globals["A"]
          /\ \E old \in Gone(runs, agenda, fiber_counter) :
                /\ old > 1
                /\ old < w.fid
                /\ \A v \in wakes : v.fid # old
                /\ \A i \in 1..Len(dispatched) : dispatched[i].fid # old
    /\ \A id \in DOMAIN agenda : agenda[id].listening = EmptyMap

\* whether a script, or a script nested in it, has a Wait with a negative
\* interval
RECURSIVE NegativeWaits(_)
NegativeWaits(script) ==
    \E i \in 1..Len(script) :
       \/ script[i].op = "Wait" /\ script[i].num < 0
       \/ NegativeWaits(script[i].script)

\* the scripts performed so far have only non-negative Wait intervals
OnlyNonNegativeWaits ==
    \A i \in 1..Len(performed) : ~NegativeWaits(performed[i].script)

\* the actors whose parked task in the agendas ag is due before t
LateTasks(ag, t) ==
    {id \in DOMAIN ag : ag[id].next # <<>> /\ ag[id].next[1].token.eta < t}

\* C22: while the scripts performed have only non-negative Wait intervals,
\* every parked task has eta >= now and update's assertion does not fail;
\* a step leaves a task with eta < now in an actor's next slot only if the
\* task was there and late before, or the step is a Wait with a negative
\* interval executed as that actor; and the assertion fails only when a
\* late task is parked.
C22_ParkedNotBeforeNow ==
    [][ /\ OnlyNonNegativeWaits' =>
              /\ LateTasks(agenda', now') = {}
              /\ result' # "panic"
              /\ call' # "panicked"
        /\ LateTasks(agenda', now') \subseteq
              LateTasks(agenda, now)
                \cup (IF ev'.kind = "Wait" /\ Fetched(Top).num < 0
                      THEN {Top.me} ELSE {})
        /\ ev'.kind = "panic" => LateTasks(agenda, now) # {} ]_vars

\* in a world of non-negative waits, a dispatch has advanced time while
\* another task, parked before the dispatch, is still to come
C22_Witness ==
    /\ performed # <<>>
    /\ OnlyNonNegativeWaits
    /\ ev.kind = "dispatch"
    /\ now > Last(dispatched).before
    /\ \E id \in Parked : TokenOf(id).eta > now

\* C23, as stated: a call of simulate(), on scripts with non-negative
\* waits and no recursive calls, ends with has_halted = true.
C23_SimulateEndsHalted ==
    [][ (call = "simulate" /\ call' # "simulate" /\ OnlyNonNegativeWaits)
           => has_halted' ]_vars

\* C23: a call of simulate(), on scripts with non-negative waits and no
\* recursive calls, returns; it returns Ok with has_halted = true, or it
\* returns the error of an action that failed, and has_halted is then as
\* that action found it.
C23_SimulateTerminates ==
    /\ [][ (call = "simulate" /\ call' # "simulate" /\ OnlyNonNegativeWaits) =>
             /\ call' = "idle"
             /\ \/ result' = "Ok" /\ has_halted'
                \/ /\ result' \in Errors \ {"panic"}
                   /\ ~ev'.ok
                   /\ has_halted' = has_halted ]_vars
    /\ (call = "simulate" /\ OnlyNonNegativeWaits) ~> (call = "idle")

\* simulate() has dispatched a parked task and then, with no task parked,
\* the synthetic Halt, and has returned Ok while a listener is still waiting
C23_Witness ==
    /\ ev.kind = "return"
    /\ result = "Ok"
    /\ has_halted
    /\ OnlyNonNegativeWaits
    /\ Len(dispatched) >= 2
    /\ Last(dispatched).from = 0 /\ Last(dispatched).by = "simulate"
    /\ dispatched[Len(dispatched) - 1].from # 0
    /\ dispatched[Len(dispatched) - 1].by = "simulate"
    /\ \E id \in DOMAIN agenda : agenda[id].listening # EmptyMap

\* the guids the scripts of the model draw
Guids == 0..(MaxBody + MaxLen - 1)

\* whether the task with guid g is parked, in the agendas ag
ParkedGuid(ag, g) ==
    \E id \in DOMAIN ag : ag[id].next # <<>> /\ ag[id].next[1].token.guid = g

\* what every step does to the parked tasks: a Wait(d) parks the rest of
\* its fiber with eta = now + d under the guid it draws; a task is
\* dispatched with now = its eta and its fiber as it was parked, and no
\* task is dispatched twice
ParkedTaskSteps ==
    /\ ev'.kind = "Wait" =>
          agenda'[Top.me].next =
             << [token |-> [eta |-> now + Fetched(Top).num, guid |-> task_counter],
                 fiber |-> Advance(Top)] >>
    /\ (ev'.kind = "dispatch" /\ Last(dispatched').from # 0) =>
          LET id == Last(dispatched').from
          IN  /\ agenda[id].next # <<>>
              /\ now' = agenda[id].next[1].token.eta
              /\ runs' = <<agenda[id].next[1].fiber>>
              /\ agenda'[id].next = <<>>
              /\ \A i \in 1..Len(dispatched) :
                    dispatched[i].from # 0 =>
                       dispatched[i].guid # agenda[id].next[1].token.guid

\* the parked task of actor id leaves the slot by being dispatched
TaskDispatched(id) ==
    /\ ev'.kind = "dispatch"
    /\ Last(dispatched').from = id
    /\ Last(dispatched').guid = agenda[id].next[1].token.guid

\* the parked task of actor id is overwritten: a fiber waits as the actor,
\* or a Transmit wakes a listener of the actor
TaskOverwritten(id) ==
    \/ ev'.kind = "Wait" /\ Top.me = id
    \/ ev'.kind = "Transmit" /\ ev'.ok /\ Sent \in DOMAIN agenda[id].listening

FallOffScript ==
    CallScript(<<Wait(1), WriteLocal("x", NumConst(8))>>, "m", <<Var("x")>>)

\* C25: a fiber executes an action only while the pc of its top frame is
\* inside that frame's script; when it is not, the run of the fiber ends,
\* whatever frames lie beneath: the fiber leaves the runs, no agenda
\* changes, and the fiber neither runs nor is parked, so that it executes
\* no further action and is never dispatched.
C25_FallOffEndsFiber ==
    [][ /\ (runs # <<>> /\ ~CanFetch(Top)) =>
              /\ ev'.kind = "end" /\ ev'.fid = Top.fid
              /\ runs' = Pop(runs)
              /\ agenda' = agenda
              /\ Top.fid \in Gone(runs', agenda', fiber_counter')
        /\ ev'.kind = "end" => (runs # <<>> /\ ~CanFetch(Top))
        /\ ev'.kind \in Actions => (runs # <<>> /\ CanFetch(Top))
        /\ \A fid \in Gone(runs, agenda, fiber_counter) :
              /\ fid \in Gone(runs', agenda', fiber_counter')
              /\ ev'.kind \in Actions \cup {"dispatch", "end"} => ev'.fid # fid ]_vars

\* a fiber called a method, waited in its body, was dispatched, and reached
\* the end of the body: its run has ended with the update that dispatched
\* it, the local the body wrote is gone with the fiber, which is held
\* nowhere, although its caller's frame had an action left
C25_Witness ==
    /\ performed # <<>> /\ performed[1].script = FallOffScript
    /\ ev.kind = "end"
    /\ dispatched # <<>>
    /\ Last(dispatched).fid = ev.fid /\ Last(dispatched).from # 0
    /\ runs = <<>>
    /\ ev.fid \in Gone(runs, agenda, fiber_counter)
    /\ Parked = {}

\* a signal is transmitted with nobody listening, and then listened for
TransmitThenListen == <<Transmit("s", NoArgs), ListenFor("s", NoArgs)>>

\* C26: a Transmit of a signal that no actor is listening for changes no
\* agenda and wakes nobody; a ListenFor leaves its actor's next slot as it
\* was, whatever was transmitted before; an entry of a listening table is
\* removed only by a Transmit of exactly its signal, which moves its fiber
\* to the actor's next slot, and changed only by a ListenFor for the same
\* signal as the same actor; and a next slot is filled only by a Wait as
\* its actor or by a Transmit of a signal its actor was listening for.
C26_SignalsNotBuffered ==
    [][ /\ (ev'.kind = "Transmit" /\ ev'.ok
              /\ \A id \in DOMAIN agenda : Sent \notin DOMAIN agenda[id].listening) =>
              /\ agenda' = agenda
              /\ wakes' = wakes
        /\ (ev'.kind = "ListenFor" /\ ev'.ok) =>
              /\ agenda'[Top.me].next = agenda[Top.me].next
              /\ Heard \in DOMAIN agenda'[Top.me].listening
              /\ wakes' = wakes
        /\ \A id \in DOMAIN agenda :
              \A sg \in DOMAIN agenda[id].listening :
                 /\ sg \notin DOMAIN agenda'[id].listening =>
                       /\ ev'.kind = "Transmit" /\ ev'.ok /\ Sent = sg
                       /\ agenda'[id].next =
                             << [token |-> [eta |-> now,
                                            guid |-> agenda[id].listening[sg].guid],
                                 fiber |-> agenda[id].listening[sg].fiber] >>
                 /\ (sg \in DOMAIN agenda'[id].listening
                       /\ agenda'[id].listening[sg] # agenda[id].listening[sg]) =>
                       (ev'.kind = "ListenFor" /\ ev'.ok /\ Top.me = id /\ Heard = sg)
        /\ \A id \in DOMAIN agenda :
              (agenda'[id].next # <<>> /\ agenda'[id].next # agenda[id].next) =>
                 \/ ev'.kind = "Wait" /\ Top.me = id
                 \/ /\ ev'.kind = "Transmit" /\ ev'.ok
                    /\ Sent \in DOMAIN agenda[id].listening ]_vars

\* the supervisor transmitted a signal nobody was listening for and then
\* listened for it; simulate() found no task parked, ran the synthetic Halt
\* and returned: nobody was woken and the listener is still in the table
C26_Witness ==
    /\ performed # <<>> /\ performed[1].script = TransmitThenListen
    /\ ev.kind = "return"
    /\ has_halted
    /\ Last(dispatched).from = 0
    /\ wakes = {}
    /\ Parked = {}
    /\ Signal("s", <<>>) \in DOMAIN agenda[supervisor].listening
    /\ agenda[supervisor].listening[Signal("s", <<>>)].fiber.fid
          = performed[1].at + 1

====
